---- MODULE Spec2Model ----
(***************************************************************************)
(* Model of src/src/main.rs: the Mandelbrot escape-time evaluators         *)
(* (mandelbrot_at_point, mandelbrot_at_vec), the row-parallel raster       *)
(* engine (calc_mandelbrot) and the intensity mapping (draw_mandelbrot).   *)
(*                                                                         *)
(* Numbers.  The f64 coordinates of the model are Gaussian integers, and   *)
(* the plane bounds are integers whose span is a multiple of the raster    *)
(* dimension, so every f64 operation the evaluators perform on them is     *)
(* exact.  An orbit value with a component beyond HugeCap is kept as the   *)
(* single value Huge: in f64 such a lane holds a large finite number, an   *)
(* infinity or a NaN, and for each of them `rr + ii <= 4.0` is false; its  *)
(* successors stay beyond HugeCap because |z^2 + c| >= |z|^2 - |c|.        *)
(* The f32 arithmetic of draw_mandelbrot is modelled bit-exactly           *)
(* (24-bit significand, round to nearest, ties to even).                   *)
(***************************************************************************)
EXTENDS Integers, Sequences, FiniteSets, TLC

VARIABLES
    \* ---- evaluator harness: one call of each evaluator on four lanes ----
    c,          \* Complex4 argument: lane -> [re, im]
    eiters,     \* the iteration budget of the call
    z,          \* mandelbrot_at_vec: z, lane -> [re, im, huge]
    count,      \* mandelbrot_at_vec: count, lane -> tally
    k,          \* mandelbrot_at_vec: number of loop passes begun
    epc,        \* position of the harness
    results,    \* value returned by mandelbrot_at_vec
    scalar,     \* values returned by mandelbrot_at_point, per lane
    \* ---- main / calc_mandelbrot / draw_mandelbrot ----
    iters, x_min, x_max, y_min, y_max, width, height,
    nworkers,   \* size of the rayon thread pool
    pc,         \* position of main
    buf,        \* the escape-count buffer (1-based: buf[i+1] is index i)
    rowpc,      \* per row: "todo", "run" or "done"
    rowx,       \* per row: the closure's x
    writes,     \* per buffer index: number of stores made by the closure
    writer,     \* per buffer index: the row whose closure stored last
    raw_img     \* draw_mandelbrot: the byte vector

evalVars == <<c, eiters, z, count, k, epc, results, scalar>>
rasterVars == <<iters, x_min, x_max, y_min, y_max, width, height, nworkers,
                pc, buf, rowpc, rowx, writes, writer, raw_img>>
vars == <<c, eiters, z, count, k, epc, results, scalar,
          iters, x_min, x_max, y_min, y_max, width, height, nworkers,
          pc, buf, rowpc, rowx, writes, writer, raw_img>>

-----------------------------------------------------------------------------
(* Bounds of the model *)

MaxIters == 5        \* budgets 0..MaxIters in the evaluator harness
HugeCap == 1000      \* components beyond this are kept as Huge
MaxRasterIters == 3  \* budgets 0..MaxRasterIters of a render
MaxWidth == 9        \* raster widths 0..MaxWidth: two lane groups and a remainder
MaxHeight == 3       \* raster heights 0..MaxHeight
MaxWorkers == 2      \* thread pools of 1..MaxWorkers threads
MaxXSpan == 9        \* x_max - x_min in 1..MaxXSpan
MaxYSpan == 3        \* y_max - y_min in 1..MaxYSpan
MaxDrawIters == 40   \* budgets 1..MaxDrawIters of draw_mandelbrot on its own

Lanes == 1..4

Abs(a) == IF a < 0 THEN -a ELSE a

-----------------------------------------------------------------------------
(* Complex values *)

Cx(a, b) == [re |-> a, im |-> b, huge |-> FALSE]

Huge == [re |-> 0, im |-> 0, huge |-> TRUE]

Sat(a, b) == IF Abs(a) > HugeCap \/ Abs(b) > HugeCap THEN Huge ELSE Cx(a, b)

\* Complex::norm_sqr
norm_sqr(w) == w.re * w.re + w.im * w.im

\* z * z + c of num::Complex
MulAddMut(w, cc) ==
    IF w.huge THEN Huge
    ELSE Sat(w.re * w.re - w.im * w.im + cc.re, w.re * w.im + cc.im)

MulAdd(w, cc) ==
    IF w.huge THEN Huge
    ELSE Sat(w.re * w.re - w.im * w.im + cc.re, w.re * w.im + w.im * w.re + cc.im)

-----------------------------------------------------------------------------
(* mandelbrot_at_point *)

\* the test `z.norm_sqr() > 4.0`
PointEscapedMut(w) == w.huge \/ norm_sqr(w) >= 4

PointEscaped(w) == w.huge \/ norm_sqr(w) > 4

\* the loop `for i in 0..=iters`, from pass i on
RECURSIVE PointLoop(_, _, _, _)
PointLoop(w, cc, i, n) ==
    IF i > n THEN n
    ELSE IF PointEscaped(w) THEN i
    ELSE PointLoop(MulAdd(w, cc), cc, i + 1, n)

mandelbrot_at_point(cx, cy, n) == PointLoop(Cx(0, 0), Cx(cx, cy), 0, n)

-----------------------------------------------------------------------------
(* mandelbrot_at_vec *)

\* one lane of `(rr + ii).simd_le(threshold)`
LaneActive(w) == ~w.huge /\ norm_sqr(w) <= 4

\* mask
Mask(zz) == [l \in Lanes |-> LaneActive(zz[l])]

\* mask.any()
MaskAny(m) == \E l \in Lanes : m[l]

\* count += mask.blend(1.0, 0.0)
CountAddMut(cnt, m) == [l \in Lanes |-> cnt[l] + 1]

CountAdd(cnt, m) == [l \in Lanes |-> cnt[l] + (IF m[l] THEN 1 ELSE 0)]

\* one lane of the update of z.real and z.imag
LaneUpdate(w, cc) ==
    IF w.huge THEN Huge
    ELSE LET rr == w.re * w.re
             ii == w.im * w.im
             ri == w.re * w.im
         IN  Sat(rr - ii + cc.re, ri + ri + cc.im)

VecUpdate(zz, cc) == [l \in Lanes |-> LaneUpdate(zz[l], cc[l])]

\* let mut z = *c
VecInitZ(cc) == [l \in Lanes |-> Cx(cc[l].re, cc[l].im)]

\* the range `0..iters` of the loop still holds pass j
InRangeMut(j, n) == j <= n

InRange(j, n) == j < n

\* the loop `for _ in 0..iters`, from pass j on
RECURSIVE VecLoop(_, _, _, _, _)
VecLoop(zz, cnt, j, cc, n) ==
    IF ~InRange(j, n) THEN cnt
    ELSE LET m == Mask(zz)
         IN  IF ~MaskAny(m) THEN cnt
             ELSE VecLoop(VecUpdate(zz, cc), CountAdd(cnt, m), j + 1, cc, n)

mandelbrot_at_vec(cc, n) == VecLoop(VecInitZ(cc), [l \in Lanes |-> 0], 0, cc, n)

-----------------------------------------------------------------------------
(* Evaluator harness: mandelbrot_at_point on each lane's coordinate, then  *)
(* mandelbrot_at_vec on the packed coordinates, one loop pass per step.    *)

\* coordinates of the harness: interior points (0, -1, i), the boundary
\* point -2 whose orbit stays at |z| = 2, and points leaving at passes 1, 2, 3
LaneCoords ==
    { [re |-> 0, im |-> 0], [re |-> -1, im |-> 0], [re |-> -2, im |-> 0],
      [re |-> 0, im |-> 1], [re |-> 1, im |-> 0], [re |-> -1, im |-> 1],
      [re |-> 1, im |-> 1], [re |-> 2, im |-> 0], [re |-> 3, im |-> 0],
      [re |-> 2, im |-> 2] }

NoCounts == [l \in Lanes |-> 0]

EvalIdle ==
    /\ c = [l \in Lanes |-> [re |-> 0, im |-> 0]]
    /\ eiters = 0
    /\ z = [l \in Lanes |-> Cx(0, 0)]
    /\ count = NoCounts
    /\ k = 0
    /\ epc = "idle"
    /\ results = NoCounts
    /\ scalar = NoCounts

EvalInit ==
    /\ c \in [Lanes -> LaneCoords]
    /\ eiters \in 0..MaxIters
    /\ z = [l \in Lanes |-> Cx(0, 0)]
    /\ count = NoCounts
    /\ k = 0
    /\ epc = "scalar"
    /\ results = NoCounts
    /\ scalar = NoCounts

\* the scalar evaluator applied to each lane's coordinate
PointCalls ==
    /\ epc = "scalar"
    /\ scalar' = [l \in Lanes |-> mandelbrot_at_point(c[l].re, c[l].im, eiters)]
    /\ epc' = "call"
    /\ UNCHANGED rasterVars
    /\ UNCHANGED <<c, eiters, z, count, k, results>>

\* mandelbrot_at_vec, lines 145-147
VecEnter ==
    /\ epc = "call"
    /\ z' = VecInitZ(c)
    /\ count' = NoCounts
    /\ k' = 0
    /\ epc' = "loop"
    /\ UNCHANGED rasterVars
    /\ UNCHANGED <<c, eiters, results, scalar>>

\* one pass of the loop that reaches its end, lines 150-163
VecIter ==
    /\ epc = "loop"
    /\ InRange(k, eiters)
    /\ MaskAny(Mask(z))
    /\ count' = CountAdd(count, Mask(z))
    /\ z' = VecUpdate(z, c)
    /\ k' = k + 1
    /\ UNCHANGED rasterVars
    /\ UNCHANGED <<c, eiters, epc, results, scalar>>

\* the pass that finds no lane active, lines 155-157
VecBreak ==
    /\ epc = "loop"
    /\ InRange(k, eiters)
    /\ ~MaskAny(Mask(z))
    /\ epc' = "exit"
    /\ UNCHANGED rasterVars
    /\ UNCHANGED <<c, eiters, z, count, k, results, scalar>>

\* the range 0..iters is exhausted
VecExhaust ==
    /\ epc = "loop"
    /\ ~InRange(k, eiters)
    /\ epc' = "exit"
    /\ UNCHANGED rasterVars
    /\ UNCHANGED <<c, eiters, z, count, k, results, scalar>>

\* lines 166-167: the tallies, exact small integers in f64, as u64
VecReturn ==
    /\ epc = "exit"
    /\ results' = count
    /\ epc' = "done"
    /\ UNCHANGED rasterVars
    /\ UNCHANGED <<c, eiters, z, count, k, scalar>>

-----------------------------------------------------------------------------
(* f32 arithmetic of draw_mandelbrot.  A finite f32 is [m, e] with value   *)
(* m * 2^e, m = 0 or 2^23 <= m < 2^24; every intermediate stays below 2^31.*)

F32(mm, ee) == [m |-> mm, e |-> ee, kind |-> "num"]

F32Zero == F32(0, 0)

F32NaN == [m |-> 0, e |-> 0, kind |-> "nan"]

F32Inf == [m |-> 0, e |-> 0, kind |-> "inf"]

\* shift a non-zero significand below 2^23 up to the normal range
RECURSIVE NormUp(_, _)
NormUp(mm, ee) == IF mm >= 2^23 THEN F32(mm, ee) ELSE NormUp(2 * mm, ee - 1)

\* a significand that rounding carried to 2^24
Carry(mm, ee) == IF mm = 2^24 THEN F32(2^23, ee + 1) ELSE F32(mm, ee)

\* round to nearest, ties to even: q with remainder r out of d
RoundEven(q, r, d) ==
    IF 2 * r > d \/ (2 * r = d /\ q % 2 = 1) THEN q + 1 ELSE q

\* the least s with n / 2^s < 2^24
RECURSIVE ShiftFor(_, _)
ShiftFor(n, s) == IF n \div 2^s < 2^24 THEN s ELSE ShiftFor(n, s + 1)

\* `x as f32` of an unsigned integer
U2F(n) ==
    IF n = 0 THEN F32Zero
    ELSE IF n < 2^24 THEN NormUp(n, 0)
    ELSE LET s == ShiftFor(n, 1)
             h == 2^(s - 1)
             q == n \div 2^s
             r == n % 2^s
             up == r > h \/ (r = h /\ q % 2 = 1)
         IN  Carry(IF up THEN q + 1 ELSE q, s)

\* floor(num * 2^bits / den) and the remainder, num < 2 * den
RECURSIVE LongDiv(_, _, _, _)
LongDiv(q, r, den, bits) ==
    IF bits = 0 THEN <<q, r>>
    ELSE LET r2 == 2 * r
         IN  IF r2 >= den THEN LongDiv(2 * q + 1, r2 - den, den, bits - 1)
             ELSE LongDiv(2 * q, r2, den, bits - 1)

\* f32 division a / b, a and b not negative
F32Div(a, b) ==
    IF b.m = 0 THEN (IF a.m = 0 THEN F32NaN ELSE F32Inf)
    ELSE IF a.m = 0 THEN F32Zero
    ELSE LET bits == IF a.m >= b.m THEN 23 ELSE 24
             qr == LongDiv(a.m \div b.m, a.m % b.m, b.m, bits)
         IN  Carry(RoundEven(qr[1], qr[2], b.m), a.e - b.e - bits)

\* f32 multiplication a * b of finite values: the 48-bit product of the
\* significands is H * 2^24 + L, assembled from 12-bit halves
F32Mul(a, b) ==
    IF a.kind # "num" \/ b.kind # "num" THEN a
    ELSE IF a.m = 0 \/ b.m = 0 THEN F32Zero
    ELSE LET ah == a.m \div 2^12
             al == a.m % 2^12
             bh == b.m \div 2^12
             bl == b.m % 2^12
             mid == ah * bl + al * bh
             low == (mid % 2^12) * 2^12 + al * bl
             H == ah * bh + mid \div 2^12 + low \div 2^24
             L == low % 2^24
         IN  IF H >= 2^23
             THEN Carry(RoundEven(H, L, 2^24), a.e + b.e + 24)
             ELSE Carry(RoundEven(2 * H + L \div 2^23, L % 2^23, 2^23),
                        a.e + b.e + 23)

\* the literal 255.0
F255 == NormUp(255, 0)

\* `as u8` of a non-negative f32: truncation, saturating, NaN to 0
F32ToU8(f) ==
    IF f.kind = "nan" THEN 0
    ELSE IF f.kind = "inf" THEN 255
    ELSE IF f.m = 0 THEN 0
    ELSE IF f.e >= 0 THEN 255
    ELSE IF -f.e >= 24 THEN 0
    ELSE LET t == f.m \div 2^(-f.e) IN IF t > 255 THEN 255 ELSE t

\* the closure of draw_mandelbrot, lines 194-200
Intensity(x, n) ==
    IF x = n THEN 255
    ELSE F32ToU8(F32Mul(F32Div(U2F(x), U2F(n)), F255))

-----------------------------------------------------------------------------
(* main, calc_mandelbrot and draw_mandelbrot.  The closure of for_each     *)
(* runs once per row, on any thread of the pool, at most nworkers rows at  *)
(* a time; a lane group and a remainder pixel are one step each.           *)

XMins == {-2}
YMins == {-1}

Rows == 0..(height - 1)

\* let dx = (x_max - x_min) / width as f64 (exact: the span is a multiple)
dx == (x_max - x_min) \div width

\* let dy = (y_max - y_min) / height as f64
dy == (y_max - y_min) \div height

\* let cy_val = y_min + (y as f64) * dy
cy_val(y) == y_min + y * dy

\* cx4 = x_min4 + (x_base + x_offset) * dx4, with imag: cy4
LaneGroupMut(y, x) == [l \in Lanes |-> [re |-> x_min + x * dx, im |-> cy_val(y)]]

LaneGroup(y, x) == [l \in Lanes |-> [re |-> x_min + (x + (l - 1)) * dx, im |-> cy_val(y)]]

\* let cx = x_min + (x as f64) * dx
cx(x) == x_min + x * dx

\* position in buf of element x of the y-th chunk of par_chunks_mut(width)
BufIndexMut(y, x) == x

BufIndex(y, x) == y * width + x

Running == {y \in Rows : rowpc[y] = "run"}

Store(b, i, v) == [b EXCEPT ![i + 1] = v]

Bump(w, i) == [w EXCEPT ![i + 1] = @ + 1]

RasterIdle ==
    /\ iters = 0 /\ x_min = 0 /\ x_max = 0 /\ y_min = 0 /\ y_max = 0
    /\ width = 0 /\ height = 0 /\ nworkers = 0
    /\ pc = "idle"
    /\ buf = <<>> /\ rowpc = <<>> /\ rowx = <<>>
    /\ writes = <<>> /\ writer = <<>> /\ raw_img = <<>>

\* the arguments main passes on
RasterInit ==
    /\ iters \in 0..MaxRasterIters
    /\ width \in 0..MaxWidth
    /\ height \in 0..MaxHeight
    /\ x_min \in XMins
    /\ y_min \in YMins
    /\ x_max \in {b \in (x_min + 1)..(x_min + MaxXSpan) :
                     width > 0 => (b - x_min) % width = 0}
    /\ y_max \in {b \in (y_min + 1)..(y_min + MaxYSpan) :
                     height > 0 => (b - y_min) % height = 0}
    /\ nworkers \in 1..MaxWorkers
    /\ pc = "main"
    /\ buf = <<>>
    /\ rowpc = [y \in Rows |-> "todo"]
    /\ rowx = [y \in Rows |-> 0]
    /\ writes = <<>>
    /\ writer = <<>>
    /\ raw_img = <<>>

\* lines 99-104: the buffer is allocated; par_chunks_mut panics on a chunk
\* size of zero
CalcEnter ==
    /\ pc = "main"
    /\ buf' = [i \in 1..(width * height) |-> 0]
    /\ writes' = [i \in 1..(width * height) |-> 0]
    /\ writer' = [i \in 1..(width * height) |-> -1]
    /\ pc' = IF width = 0 THEN "panicked" ELSE "rows"
    /\ UNCHANGED evalVars
    /\ UNCHANGED <<iters, x_min, x_max, y_min, y_max, width, height, nworkers,
                   rowpc, rowx, raw_img>>

\* a thread of the pool takes row y, lines 105-113
RowStart(y) ==
    /\ pc = "rows"
    /\ rowpc[y] = "todo"
    /\ Cardinality(Running) < nworkers
    /\ rowpc' = [rowpc EXCEPT ![y] = "run"]
    /\ rowx' = [rowx EXCEPT ![y] = 0]
    /\ UNCHANGED evalVars
    /\ UNCHANGED <<iters, x_min, x_max, y_min, y_max, width, height, nworkers,
                   pc, buf, writes, writer, raw_img>>

\* the stores chunk[0..3] = results[0..3] of the lane group at x
StoreGroup(b, y, x, r) ==
    [i \in 1..Len(b) |->
        IF \E l \in Lanes : i = BufIndex(y, x + (l - 1)) + 1
        THEN r[CHOOSE l \in Lanes : i = BufIndex(y, x + (l - 1)) + 1]
        ELSE b[i]]

\* one pass of `for chunk in chunks.by_ref()`, lines 115-130
RowChunk(y) ==
    /\ pc = "rows"
    /\ rowpc[y] = "run"
    /\ rowx[y] + 4 <= width
    /\ LET x == rowx[y]
           r == mandelbrot_at_vec(LaneGroup(y, x), iters)
           hit == {BufIndex(y, x + (l - 1)) + 1 : l \in Lanes}
       IN  /\ buf' = StoreGroup(buf, y, x, r)
           /\ writes' = [i \in 1..Len(writes) |->
                            IF i \in hit THEN writes[i] + 1 ELSE writes[i]]
           /\ writer' = [i \in 1..Len(writer) |->
                            IF i \in hit THEN y ELSE writer[i]]
    /\ rowx' = [rowx EXCEPT ![y] = @ + 4]
    /\ UNCHANGED evalVars
    /\ UNCHANGED <<iters, x_min, x_max, y_min, y_max, width, height, nworkers,
                   pc, rowpc, raw_img>>

\* one pass of `for pixel in chunks.into_remainder()`, lines 132-136
RowPixel(y) ==
    /\ pc = "rows"
    /\ rowpc[y] = "run"
    /\ rowx[y] + 4 > width
    /\ rowx[y] < width
    /\ LET x == rowx[y]
           i == BufIndex(y, x)
       IN  /\ buf' = Store(buf, i, mandelbrot_at_point(cx(x), cy_val(y), iters))
           /\ writes' = Bump(writes, i)
           /\ writer' = [writer EXCEPT ![i + 1] = y]
    /\ rowx' = [rowx EXCEPT ![y] = @ + 1]
    /\ UNCHANGED evalVars
    /\ UNCHANGED <<iters, x_min, x_max, y_min, y_max, width, height, nworkers,
                   pc, rowpc, raw_img>>

\* the closure returns for row y
RowDone(y) ==
    /\ pc = "rows"
    /\ rowpc[y] = "run"
    /\ rowx[y] = width
    /\ rowpc' = [rowpc EXCEPT ![y] = "done"]
    /\ UNCHANGED evalVars
    /\ UNCHANGED <<iters, x_min, x_max, y_min, y_max, width, height, nworkers,
                   pc, buf, rowx, writes, writer, raw_img>>

\* for_each has run every row; line 139
CalcReturn ==
    /\ pc = "rows"
    /\ \A y \in Rows : rowpc[y] = "done"
    /\ pc' = "returned"
    /\ UNCHANGED evalVars
    /\ UNCHANGED <<iters, x_min, x_max, y_min, y_max, width, height, nworkers,
                   buf, rowpc, rowx, writes, writer, raw_img>>

\* draw_mandelbrot, lines 192-211: the bytes, then GrayImage::from_raw,
\* which refuses a vector shorter than width * height
Draw ==
    /\ pc = "returned"
    /\ raw_img' = [i \in 1..Len(buf) |-> Intensity(buf[i], iters)]
    /\ pc' = IF width * height <= Len(buf) THEN "saved" ELSE "handled_error"
    /\ UNCHANGED evalVars
    /\ UNCHANGED <<iters, x_min, x_max, y_min, y_max, width, height, nworkers,
                   buf, rowpc, rowx, writes, writer>>

-----------------------------------------------------------------------------------------------------------------------------------------------------
(* Specifications *)

\* a render: main from its arguments to the saved image
Init == RasterInit /\ EvalIdle

Next ==
    \/ CalcEnter
    \/ \E y \in Rows : RowStart(y)
    \/ \E y \in Rows : RowChunk(y)
    \/ \E y \in Rows : RowPixel(y)
    \/ \E y \in Rows : RowDone(y)
    \/ CalcReturn
    \/ Draw

Spec == Init /\ [][Next]_vars

\* the two evaluators on the same four coordinates
InitEval == EvalInit /\ RasterIdle

NextEval == PointCalls \/ VecEnter \/ VecIter \/ VecBreak \/ VecExhaust \/ VecReturn

SpecEval == InitEval /\ [][NextEval]_vars

\* draw_mandelbrot on its own: every count of every small budget, and
\* counts of budgets beyond the range where f32 holds 255 * v / n exactly
LargeDraws == { <<132333, 132854>>, <<16777216, 16777217>> }

DrawInputs ==
    { <<v, n>> : v \in 0..MaxDrawIters, n \in 1..MaxDrawIters } \cup LargeDraws

InitDraw ==
    /\ EvalIdle
    /\ \E p \in {q \in DrawInputs : q[1] <= q[2]} :
          /\ iters = p[2]
          /\ buf \in [1..2 -> {0, p[1], p[2]}]
    /\ width \in 1..3
    /\ height = 1
    /\ x_min = 0 /\ x_max = 0 /\ y_min = 0 /\ y_max = 0
    /\ nworkers = 1
    /\ pc = "returned"
    /\ rowpc = [y \in Rows |-> "done"]
    /\ rowx = [y \in Rows |-> width]
    /\ writes = <<>>
    /\ writer = <<>>
    /\ raw_img = <<>>

NextDraw == Draw

SpecDraw == InitDraw /\ [][NextDraw]_vars

-----------------------------------------------------------------------------
(* The orbit z_0 = 0, z_{k+1} = z_k^2 + c over the Gaussian integers, and  *)
(* the escape time the contracts speak of.                                 *)

RECURSIVE Orbit(_, _)
Orbit(cc, i) ==
    IF i = 0 THEN Cx(0, 0)
    ELSE LET p == Orbit(cc, i - 1)
         IN  IF p.huge THEN Huge
             ELSE Sat(p.re * p.re - p.im * p.im + cc.re, 2 * p.re * p.im + cc.im)

\* |z_i|^2 > 4
Outside(cc, i) ==
    LET p == Orbit(cc, i) IN p.huge \/ p.re * p.re + p.im * p.im > 4

\* the smallest i in 0..n with |z_i|^2 > 4, and n when there is none
EscapeTime(cc, n) ==
    IF \E i \in 0..n : Outside(cc, i)
    THEN CHOOSE i \in 0..n : Outside(cc, i) /\ \A j \in 0..(i - 1) : ~Outside(cc, j)
    ELSE n

ScalarDone == epc \in {"call", "loop", "exit", "done"}

Pt(a, b) == [re |-> a, im |-> b]

-----------------------------------------------------------------------------
(* Claims about the evaluators, under SpecEval *)

\* C1: the four outputs of mandelbrot_at_vec equal mandelbrot_at_point
\* applied to each lane's coordinate, for every budget.
C1_ScalarBatchedEquivalence ==
    epc = "done" => \A l \in Lanes : results[l] = scalar[l]

\* C2: mandelbrot_at_point(cx, cy, N) is the smallest i in 0..N with
\* |z_i|^2 > 4 on the orbit from z_0 = 0, and N when there is none
\* (so 0 for N = 0).
C2_PointIsEscapeTime ==
    ScalarDone =>
        \A l \in Lanes :
            /\ scalar[l] = EscapeTime(c[l], eiters)
            /\ eiters = 0 => scalar[l] = 0

C2_Witness ==
    /\ ScalarDone
    /\ eiters = MaxIters
    /\ \E l \in Lanes : scalar[l] > 1 /\ scalar[l] < eiters
    /\ \E l \in Lanes : scalar[l] = eiters

\* C6 (as stated): mandelbrot_at_point(-2, 0, N) = 1 for every N >= 1 and
\* mandelbrot_at_point(1, 1, N) = 2 for every N >= 2.
C6_ReferenceTable ==
    ScalarDone =>
        \A l \in Lanes :
            /\ (c[l] = Pt(-2, 0) /\ eiters >= 1) => scalar[l] = 1
            /\ (c[l] = Pt(1, 1) /\ eiters >= 2) => scalar[l] = 2

\* C6 (amended): mandelbrot_at_point(-2, 0, N) = N for every N >= 1, the
\* orbit of -2 staying at |z|^2 = 4, which is not above the threshold; and
\* mandelbrot_at_point(1, 1, N) = 2 for every N >= 2.
C6_ReferenceTableAmended ==
    ScalarDone =>
        \A l \in Lanes :
            /\ (c[l] = Pt(-2, 0) /\ eiters >= 1) => scalar[l] = eiters
            /\ (c[l] = Pt(1, 1) /\ eiters >= 2) => scalar[l] = 2

C6_Witness ==
    /\ ScalarDone
    /\ eiters >= 3
    /\ \E l \in Lanes : c[l] = Pt(-2, 0) /\ scalar[l] = eiters
    /\ \E l \in Lanes : c[l] = Pt(1, 1) /\ scalar[l] = 2

C10_MonotonicLaneFreeze ==
    [][\A l \in Lanes :
          (epc = "loop" /\ ~LaneActive(z[l])) =>
              (~LaneActive(z'[l]) /\ count'[l] = count[l])]_vars

C10_Witness ==
    /\ epc = "loop"
    /\ k >= 3
    /\ InRange(k, eiters)
    /\ \E l \in Lanes : ~LaneActive(z[l]) /\ count[l] < k - 1
    /\ \E l \in Lanes : LaneActive(z[l]) /\ count[l] = k

-----------------------------------------------------------------------------
(* Claims about calc_mandelbrot, under Spec *)

Pixels == {<<x, y>> : x \in 0..(width - 1), y \in 0..(height - 1)}

\* the coordinate of pixel (x, y)
PixelRe(x) == x_min + x * ((x_max - x_min) \div width)

PixelIm(y) == y_min + y * ((y_max - y_min) \div height)

\* column x lies in a four-wide lane group
InLaneGroup(x) == x < 4 * (width \div 4)

\* the count of pixel (x, y) by the evaluator its column is given to: a
\* function of the arguments of calc_mandelbrot alone
PixelCount(x, y) ==
    IF InLaneGroup(x)
    THEN LET g == 4 * (x \div 4)
         IN  mandelbrot_at_vec([l \in Lanes |-> Pt(PixelRe(g + l - 1), PixelIm(y))],
                               iters)[(x % 4) + 1]
    ELSE mandelbrot_at_point(PixelRe(x), PixelIm(y), iters)

Returned == pc \in {"returned", "saved", "handled_error"}

\* C3: after calc_mandelbrot returns, buf[y*width + x] is the scalar
\* escape-time count of pixel (x, y)'s coordinate, in lane-group columns
\* and in remainder columns alike.
C3_BufferIsScalarCount ==
    Returned =>
        \A p \in Pixels :
            buf[p[2] * width + p[1] + 1] = mandelbrot_at_point(PixelRe(p[1]), PixelIm(p[2]), iters)

\* C4: the buffer calc_mandelbrot returns is a function of its arguments
\* alone, whatever the number of threads and the order of the rows.
C4_Determinism ==
    Returned =>
        /\ Len(buf) = width * height
        /\ \A p \in Pixels : buf[p[2] * width + p[1] + 1] = PixelCount(p[1], p[2])

C4_Witness ==
    /\ pc = "returned"
    /\ nworkers = MaxWorkers
    /\ height = MaxHeight
    /\ width = MaxWidth
    /\ \E i, j \in 1..Len(buf) : buf[i] > 0 /\ buf[i] < buf[j]

\* C5: every index y*width + x is stored exactly once, by the closure of
\* row y and with the count of pixel (x, y); no index is stored twice under
\* any interleaving, and the returned buffer has width*height entries.
C5_ExactlyOnceWrites ==
    /\ \A i \in 1..Len(writes) :
          /\ writes[i] <= 1
          /\ writes[i] = 1 =>
                /\ writer[i] = (i - 1) \div width
                /\ buf[i] = PixelCount((i - 1) % width, (i - 1) \div width)
          /\ writes[i] = 0 => writer[i] = -1
    /\ Returned =>
          /\ Len(buf) = width * height
          /\ \A p \in Pixels : writes[p[2] * width + p[1] + 1] = 1

C5_Witness ==
    /\ pc = "rows"
    /\ width = MaxWidth
    /\ Cardinality(Running) = 2
    /\ \A y \in Running : rowx[y] = 8
    /\ \E i \in 1..Len(writes) : writes[i] = 0

\* C9: calc_mandelbrot runs to completion for every budget, width and
\* height main forwards, and returns a buffer of width*height entries; the
\* program never aborts.
C9_NoFailingPath ==
    /\ pc # "panicked"
    /\ Returned => Len(buf) = width * height

-----------------------------------------------------------------------------
(* Claim about draw_mandelbrot, under SpecDraw *)

\* C8: for every budget N >= 1 and count v in 0..N the byte is 255 when
\* v = N, 0 when v = 0 < N, and floor(255*v/N) when v < N.
C8_IntensityMapping ==
    (pc = "saved" /\ iters >= 1) =>
        \A i \in 1..Len(raw_img) :
            /\ buf[i] = iters => raw_img[i] = 255
            /\ (buf[i] = 0 /\ buf[i] < iters) => raw_img[i] = 0
            /\ buf[i] < iters => raw_img[i] = (255 * buf[i]) \div iters

====
